---- MODULE Spec2Model ----
(***************************************************************************)
(* free-bandcamp-downloader: the acquisition engine of BCFreeDownloader    *)
(* (bc_free_downloader.py) and the driver loop of main (__main__.py).      *)
(*                                                                         *)
(* The program is one thread.  pc is its control point, stack the return   *)
(* points of the calls in progress.  Every network request is one step;    *)
(* the local computation up to the next request belongs to the same step.  *)
(* The storefront and the mailbox are the environment: what a request      *)
(* returns is drawn from a small set at the step that issues it.           *)
(***************************************************************************)
EXTENDS Integers, Sequences, FiniteSets, TLC

\* ------------------------------------------------------------------ bounds
MaxId == 2          \* release identities known to the storefront
MaxCalls == 3       \* calls a client makes on one BCFreeDownloader
MaxMails == 2       \* messages the mailbox receives during a run
MaxUrls == 1        \* URLs on main's command line
MaxRels == 2        \* releases a label page lists
MaxGrid == 3        \* <li> items of a label page taken alone
MaxCat == 2         \* catalog items of a label page taken alone
MaxTime == 910      \* seconds the clock runs when GMSession is taken alone
MaxLines == 3       \* lines of downloaded.txt when the history is taken alone

\* ---------------------------------------------------------------- universe
TypeOf(n) == IF n % 2 = 1 THEN "album" ELSE "track"
Ids == { <<TypeOf(n), n>> : n \in 1..MaxId }
NoId == <<"none", 0>>

\* URLs are [kind, key]: the path segment that tells them apart and a number.
Url(k, n) == [kind |-> k, key |-> n]
EmptyUrl == Url("", 0)
NoUrl == Url("none", 0)

\* File names the server's content-disposition header may give.
FileNames == {"a.zip", "b.flac"}
NoFile == "none"

\* BCFreeDownloader.FORMATS
FORMATS ==
    [ f \in {"FLAC", "V0MP3", "320MP3", "AAC", "Ogg", "ALAC", "WAV", "AIFF"} |->
        CASE f = "FLAC" -> "flac"
          [] f = "V0MP3" -> "mp3-v0"
          [] f = "320MP3" -> "mp3-320"
          [] f = "AAC" -> "aac-hi"
          [] f = "Ogg" -> "vorbis"
          [] f = "ALAC" -> "alac"
          [] f = "WAV" -> "wav"
          [] f = "AIFF" -> "aiff-lossless" ]

\* Formats a caller may ask for: one the table knows, one it does not.
FormatInputs == {"FLAC", "MP3"}

\* Exceptions, by class; BCFreeDownloadError carries its message's first words.
DownloadExpired == "BCFreeDownloadError: Download expired"

VARIABLES
    pc,             \* control point
    stack,          \* return points of the calls in progress
    top,            \* who sits at the bottom of the stack: "client" or "main"
    exc,            \* the exception that ended the last call ("none": it returned)
    calls,          \* calls the client has made
    format,         \* self.options.format
    queued_emails,  \* self.queued_emails
    df,             \* the frame of _download_file
    da,             \* the frame of download_album
    fl,             \* the frame of flush_email_downloads
    inbox,          \* the messages the mailbox service holds
    mails,          \* messages delivered so far
    mn,             \* the frame of main
    dl_file,        \* downloaded.txt, line by line
    completed,      \* per identity, the downloads that wrote their file whole
    label,          \* get_label_info taken alone: its page and its result
    gm              \* GMSession taken alone: the clock, its fields, its last call

vars == <<pc, stack, top, exc, calls, format, queued_emails, df, da, fl, inbox,
          mails, mn, dl_file, completed, label, gm>>

\* ------------------------------------------------------------- GMSession
LinkTimeout == 300      \* guerrillamail.py line 29: ... > 300

\* time.time() in whole seconds; NoTime is None.
NoTime == -1

\*   now             the clock
\*   email_addr      self.email_addr is set (with it, self.sid_token)
\*   last_linkcheck  self.last_linkcheck
\*   op, sent, err   the last call made on the session, the requests it sent
\*                   in order ("ping" is the set_email_user of line 30), and
\*                   the exception it ended with
\*   prev_call       when the session was last called through _get, or given
\*                   its address
\*   last_ping       when line 30 last sent its request
GmInit ==
    [ now |-> 0, email_addr |-> FALSE, last_linkcheck |-> NoTime,
      op |-> "none", sent |-> <<>>, err |-> "none",
      prev_call |-> NoTime, last_ping |-> NoTime ]

\* The calls that go through _get (line 43-59), by their f: those the
\* downloader makes (get_all_emails, get_email, del_emails).
GetFs == { "get_email_list", "get_older_list", "fetch_email", "del_email" }

\* Line 14-19: one request; raise_for_status may raise.
getbase(g, f, fails) ==
    [g EXCEPT !.sent = Append(@, f), !.err = IF fails THEN "HTTPError" ELSE "none"]

\* Line 27-31.  The ping needs self.email_addr, which is None until
\* get_email_address has set it: None.split raises AttributeError.
ensure_linked(g, fails) ==
    IF g.last_linkcheck = NoTime \/ g.now - g.last_linkcheck > LinkTimeout
    THEN IF ~g.email_addr
         THEN [g EXCEPT !.err = "AttributeError"]
         ELSE LET pinged == [getbase(g, "ping", fails) EXCEPT !.last_ping = g.now]
              IN IF fails THEN pinged
                 ELSE [pinged EXCEPT !.last_linkcheck = g.now]
    ELSE [g EXCEPT !.last_linkcheck = g.now]

\* Line 21-23.
get(g, f, pingFails, fails) ==
    LET linked == ensure_linked([g EXCEPT !.prev_call = g.now], pingFails)
    IN IF linked.err # "none" THEN linked ELSE getbase(linked, f, fails)

\* Line 33-41.
get_email_address(g, fails) ==
    LET asked == getbase(g, "get_email_address", fails = 1)
        named == [asked EXCEPT !.email_addr = TRUE, !.last_linkcheck = g.now,
                               !.prev_call = g.now]
        listed == get(named, "get_email_list", FALSE, fails = 2)
    IN IF asked.err # "none" THEN asked
       ELSE IF listed.err # "none" THEN listed
       ELSE get(listed, "del_email", FALSE, fails = 3)

\* The caller lets time pass between calls: none, or about the timeout.
Gaps == {LinkTimeout - 1, LinkTimeout, LinkTimeout + 1}

GMSleep ==
    /\ pc = "gm"
    /\ \E d \in Gaps :
          /\ gm.now + d <= MaxTime
          /\ gm' = [gm EXCEPT !.now = @ + d, !.op = "sleep", !.sent = <<>>,
                              !.err = "none"]
    /\ UNCHANGED <<pc, stack, top, exc, calls, format, queued_emails, df, da, fl,
                   inbox, mails, mn, dl_file, completed, label>>

GMGet ==
    /\ pc = "gm"
    /\ \E f \in GetFs, pingFails, fails \in BOOLEAN :
          gm' = get([gm EXCEPT !.op = "_get", !.sent = <<>>, !.err = "none"],
                    f, pingFails, fails)
    /\ UNCHANGED <<pc, stack, top, exc, calls, format, queued_emails, df, da, fl,
                   inbox, mails, mn, dl_file, completed, label>>

GMGetEmailAddress ==
    /\ pc = "gm"
    /\ \E fails \in 0..3 :
          gm' = get_email_address([gm EXCEPT !.op = "get_email_address",
                                             !.sent = <<>>, !.err = "none"], fails)
    /\ UNCHANGED <<pc, stack, top, exc, calls, format, queued_emails, df, da, fl,
                   inbox, mails, mn, dl_file, completed, label>>

\* ------------------------------------------------------------ call and raise
\* A normal return: resume the caller.
Return ==
    /\ pc' = Head(stack)
    /\ stack' = Tail(stack)

\* An exception no frame catches: the whole call chain ends.
Raise(e) ==
    /\ exc' = e
    /\ stack' = <<>>
    /\ pc' = IF top = "main" THEN "main_crashed" ELSE "returned"

\* ----------------------------------------------------------- _download_file
\*   url           download_page_url
\*   id            (data["type"], data["item_id"]) of the page's digital item
\*   download_url  the local of that name
\*   attempts      the URLs download() was called on, in order
\*   stat          the URLs requested as statdownload_url
\*   stat_body     r.text of the statdownload response
\*   file_name     what download() returned

\* download_url.replace("/download/", "/statdownload/")
StatdownloadUrl(u) ==
    IF u.kind = "download" THEN Url("statdownload", u.key) ELSE u

\* What the page's digital item gives as the URL of a format.
DownloadUrls == { Url("download", 1), Url("other", 1) }

\* Bodies of a statdownload response: without the field, with an empty one,
\* with a URL.
RetryUrls == { Url("retry", n) : n \in 1..2 }
StatBodies ==
    { [has_retry |-> FALSE, retry_url |-> EmptyUrl] }
        \cup { [has_retry |-> TRUE, retry_url |-> u] : u \in RetryUrls \cup {EmptyUrl} }

NoBody == [has_retry |-> FALSE, retry_url |-> NoUrl]

DfInit == [ url |-> NoUrl, id |-> NoId, download_url |-> NoUrl,
            attempts |-> <<>>, stat |-> <<>>, stat_body |-> NoBody,
            file_name |-> NoFile ]

\* RETRY_URL_REGEX.search(r.text): a match, or None.
RetrySearch(body) == body.has_retry

\* Line 88-97: fetch the download page, read the item and its format URL.
DownloadFilePage ==
    /\ pc = "df_page"
    /\ \/ /\ Raise("HTTPError")
          /\ UNCHANGED df
       \/ /\ format \notin DOMAIN FORMATS
          /\ Raise("KeyError")
          /\ UNCHANGED df
       \/ /\ format \in DOMAIN FORMATS
          /\ \E i \in Ids, u \in DownloadUrls :
                df' = [df EXCEPT !.id = i, !.download_url = u]
          /\ pc' = "df_primary"
          /\ UNCHANGED <<stack, exc>>
    /\ UNCHANGED <<top, calls, format, queued_emails, da, fl, inbox, mails, mn,
                 dl_file, completed, label, gm>>

\* Line 99-110, download(): the file is written whole, or the attempt failed.
\* A download that wrote its file counts for the release it was made for: the
\* page download_album was given, or, from a mailed link, the item of the
\* download page.
Acquired == IF stack # <<>> /\ Head(stack) = "da_after" THEN da.soup.cur ELSE df.id

\* Line 112-113: the primary attempt, download(download_url).
DownloadFilePrimary ==
    /\ pc = "df_primary"
    /\ \/ \E f \in FileNames :
            /\ df' = [df EXCEPT !.attempts = Append(@, df.download_url),
                                !.file_name = f]
            /\ completed' = [completed EXCEPT ![Acquired] = @ + 1]
            /\ Return
            /\ UNCHANGED exc
       \/ /\ df' = [df EXCEPT !.attempts = Append(@, df.download_url)]
          /\ pc' = "df_stat"
          /\ UNCHANGED <<stack, exc, completed>>
    /\ UNCHANGED <<top, calls, format, queued_emails, da, fl, inbox, mails, mn,
                 dl_file, label, gm>>

\* Line 114-126: the statdownload request and what its body decides.
DownloadFileStat ==
    /\ pc = "df_stat"
    /\ LET statdownload_url == StatdownloadUrl(df.download_url)
           asked == [df EXCEPT !.stat = Append(@, statdownload_url)]
       IN \/ /\ df' = asked
             /\ Raise("HTTPError")
          \/ \E body \in StatBodies :
                IF ~RetrySearch(body)
                THEN /\ df' = [asked EXCEPT !.stat_body = body]
                     /\ Raise("AttributeError")
                ELSE IF body.retry_url = EmptyUrl
                THEN /\ df' = [asked EXCEPT !.stat_body = body,
                                            !.download_url = EmptyUrl]
                     /\ Raise(DownloadExpired)
                ELSE /\ df' = [asked EXCEPT !.stat_body = body,
                                            !.download_url = body.retry_url]
                     /\ pc' = "df_secondary"
                     /\ UNCHANGED <<stack, exc>>
    /\ UNCHANGED <<top, calls, format, queued_emails, da, fl, inbox, mails, mn,
                 dl_file, completed, label, gm>>

\* DownloadFileSecondary, had the retry been written as a loop: a failed
\* secondary attempt asks statdownload again.
DownloadFileSecondaryAgain ==
    /\ pc = "df_secondary"
    /\ \/ \E f \in FileNames :
            /\ df' = [df EXCEPT !.attempts = Append(@, df.download_url),
                                !.file_name = f]
            /\ completed' = [completed EXCEPT ![Acquired] = @ + 1]
            /\ Return
            /\ UNCHANGED exc
       \/ /\ df' = [df EXCEPT !.attempts = Append(@, df.download_url)]
          /\ pc' = "df_stat"
          /\ UNCHANGED <<stack, exc, completed>>
    /\ UNCHANGED <<top, calls, format, queued_emails, da, fl, inbox, mails, mn,
                 dl_file, label, gm>>

\* Line 119-120: the one secondary attempt, download(retry_url).
DownloadFileSecondary ==
    /\ pc = "df_secondary"
    /\ \/ \E f \in FileNames :
            /\ df' = [df EXCEPT !.attempts = Append(@, df.download_url),
                                !.file_name = f]
            /\ completed' = [completed EXCEPT ![Acquired] = @ + 1]
            /\ Return
            /\ UNCHANGED exc
       \/ /\ df' = [df EXCEPT !.attempts = Append(@, df.download_url)]
          /\ Raise("HTTPError")
          /\ UNCHANGED completed
    /\ UNCHANGED <<top, calls, format, queued_emails, da, fl, inbox, mails, mn,
                 dl_file, label, gm>>

DownloadFile ==
    \/ DownloadFilePage
    \/ DownloadFilePrimary
    \/ DownloadFileStat
    \/ DownloadFileSecondary

\* ----------------------------------------------------------- download_album
\* A release page as get_album_info reads it: tralbum_data and head_data.
\*   cur               tralbum_data["current"]: (type, id)
\*   hasAudio          tralbum_data["hasAudio"]
\*   matched           head_data's albumRelease holds a record whose @id is the page's
\*   offers            that record's "offers": absent, or with a price
\*   freeDownloadPage  tralbum_data["freeDownloadPage"] is a URL (not None)
\*   is_purchased      tralbum_data["is_purchased"]
Offers == { [has |-> FALSE, price |-> 0], [has |-> TRUE, price |-> 0],
            [has |-> TRUE, price |-> 5] }
Soups ==
    [ cur : Ids, hasAudio : BOOLEAN, matched : BOOLEAN, offers : Offers,
      freeDownloadPage : BOOLEAN, is_purchased : BOOLEAN ]
NoSoup ==
    [ cur |-> NoId, hasAudio |-> FALSE, matched |-> FALSE,
      offers |-> [has |-> FALSE, price |-> 0],
      freeDownloadPage |-> FALSE, is_purchased |-> FALSE ]

ReleaseUrl(s) == Url("release", s.cur[2])       \* tralbum_data["url"]
FreePageUrl(s) == Url("free", s.cur[2])         \* tralbum_data["freeDownloadPage"]

\* self.queued_emails is a dict keyed by (type, id); line 342 makes it the int 0.
EmptyDict == [ k \in {} |-> NoSoup ]
QDict(f) == [tag |-> "dict", d |-> f]
QInt == [tag |-> "int", d |-> EmptyDict]
Keys(q) == DOMAIN q.d
DictPut(f, k, v) == [ x \in DOMAIN f \cup {k} |-> IF x = k THEN v ELSE f[x] ]
DictPop(f, k) == [ x \in DOMAIN f \ {k} |-> f[x] ]

\* The collection search's response (line 172-175), for the release looked for:
\*   "url"       tralbums has an entry of its type and id, and redownload_urls
\*               has that entry's sale item
\*   "no_url"    tralbums has the entry, redownload_urls lacks its sale item
\*   "no_entry"  tralbums has no entry of its type and id
SearchResults == {"url", "no_url", "no_entry"}
NoResults == "none"

\*   ack         the acknowledgement of the email-capture POST (line 242-243):
\*               "none" before it, then "ok" or "not_ok"
DaInit(s) ==
    [ soup |-> s, is_downloaded |-> FALSE, email_queued |-> FALSE,
      file_name |-> NoFile, posts |-> 0, searches |-> 0, dl_calls |-> <<>>,
      queued_before |-> queued_emails, results |-> NoResults,
      ack |-> "none" ]

\* DownloadAlbumStart, had the price been tested before the free-download page.
DownloadAlbumStartPriceFirst ==
    /\ pc = "da_start"
    /\ LET s == da.soup
       IN IF ~s.hasAudio
          THEN Return /\ UNCHANGED <<exc, df, da>>
          ELSE IF ~s.matched
          THEN Raise("StopIteration") /\ UNCHANGED <<df, da>>
          ELSE IF s.offers.has /\ s.offers.price = 0
          THEN pc' = "da_post" /\ UNCHANGED <<stack, exc, df, da>>
          ELSE IF s.freeDownloadPage
          THEN /\ da' = [da EXCEPT !.dl_calls = Append(@, FreePageUrl(s))]
               /\ df' = [DfInit EXCEPT !.url = FreePageUrl(s)]
               /\ pc' = "df_page"
               /\ stack' = <<"da_after">> \o stack
               /\ UNCHANGED exc
          ELSE IF ~s.offers.has
          THEN Raise("KeyError") /\ UNCHANGED <<df, da>>
          ELSE IF s.is_purchased
          THEN pc' = "da_search" /\ UNCHANGED <<stack, exc, df, da>>
          ELSE Return /\ UNCHANGED <<exc, df, da>>
    /\ UNCHANGED <<top, calls, format, queued_emails, fl, inbox, mails, mn, dl_file,
                 completed, label, gm>>

\* DownloadAlbumStart, had the hasAudio test of lines 206-208 been left out.
DownloadAlbumStartAudioUntested ==
    /\ pc = "da_start"
    /\ LET s == da.soup
       IN IF ~s.matched
          THEN Raise("StopIteration") /\ UNCHANGED <<df, da>>
          ELSE IF s.freeDownloadPage
          THEN /\ da' = [da EXCEPT !.dl_calls = Append(@, FreePageUrl(s))]
               /\ df' = [DfInit EXCEPT !.url = FreePageUrl(s)]
               /\ pc' = "df_page"
               /\ stack' = <<"da_after">> \o stack
               /\ UNCHANGED exc
          ELSE IF ~s.offers.has
          THEN Raise("KeyError") /\ UNCHANGED <<df, da>>
          ELSE IF s.offers.price = 0
          THEN pc' = "da_post" /\ UNCHANGED <<stack, exc, df, da>>
          ELSE IF s.is_purchased
          THEN pc' = "da_search" /\ UNCHANGED <<stack, exc, df, da>>
          ELSE Return /\ UNCHANGED <<exc, df, da>>
    /\ UNCHANGED <<top, calls, format, queued_emails, fl, inbox, mails, mn, dl_file,
                   completed, label, gm>>

\* Line 195-226 and 249-262: everything up to the branch's first request.
DownloadAlbumStart ==
    /\ pc = "da_start"
    /\ LET s == da.soup
       IN IF ~s.hasAudio
          THEN Return /\ UNCHANGED <<exc, df, da>>
          ELSE IF ~s.matched
          THEN Raise("StopIteration") /\ UNCHANGED <<df, da>>
          ELSE IF s.freeDownloadPage
          THEN /\ da' = [da EXCEPT !.dl_calls = Append(@, FreePageUrl(s))]
               /\ df' = [DfInit EXCEPT !.url = FreePageUrl(s)]
               /\ pc' = "df_page"
               /\ stack' = <<"da_after">> \o stack
               /\ UNCHANGED exc
          ELSE IF ~s.offers.has
          THEN Raise("KeyError") /\ UNCHANGED <<df, da>>
          ELSE IF s.offers.price = 0
          THEN pc' = "da_post" /\ UNCHANGED <<stack, exc, df, da>>
          ELSE IF s.is_purchased
          THEN pc' = "da_search" /\ UNCHANGED <<stack, exc, df, da>>
          ELSE Return /\ UNCHANGED <<exc, df, da>>
    /\ UNCHANGED <<top, calls, format, queued_emails, fl, inbox, mails, mn, dl_file,
                 completed, label, gm>>

\* DownloadAlbumPost, had line 247 been left out: the result says queued, the
\* dict does not hold the release.
DownloadAlbumPostUnqueued ==
    /\ pc = "da_post"
    /\ LET posted == [da EXCEPT !.posts = @ + 1]
       IN \/ /\ da' = posted
             /\ Raise("HTTPError")
          \/ \E ok \in BOOLEAN :
                IF ~ok
                THEN /\ da' = [posted EXCEPT !.ack = "not_ok"]
                     /\ Raise("ValueError")
                ELSE /\ da' = [posted EXCEPT !.ack = "ok", !.email_queued = TRUE]
                     /\ Return
                     /\ UNCHANGED exc
    /\ UNCHANGED <<top, calls, format, queued_emails, df, fl, inbox, mails, mn,
                 dl_file, completed, label, gm>>

\* DownloadAlbumPost, had lines 243-244 been left out: the release is queued
\* whatever the acknowledgement says.
DownloadAlbumPostAckIgnored ==
    /\ pc = "da_post"
    /\ LET posted == [da EXCEPT !.posts = @ + 1]
       IN \/ /\ da' = posted
             /\ Raise("HTTPError")
             /\ UNCHANGED queued_emails
          \/ \E ok \in BOOLEAN :
                IF queued_emails.tag = "int"
                THEN /\ da' = [posted EXCEPT !.ack = IF ok THEN "ok" ELSE "not_ok",
                                             !.email_queued = TRUE]
                     /\ Raise("TypeError")
                     /\ UNCHANGED queued_emails
                ELSE /\ da' = [posted EXCEPT !.ack = IF ok THEN "ok" ELSE "not_ok",
                                             !.email_queued = TRUE]
                     /\ queued_emails' =
                            QDict(DictPut(queued_emails.d, da.soup.cur, da.soup))
                     /\ Return
                     /\ UNCHANGED exc
    /\ UNCHANGED <<top, calls, format, df, fl, inbox, mails, mn, dl_file, completed,
                   label, gm>>

\* Line 227-248: the email-capture POST and the enqueueing.
DownloadAlbumPost ==
    /\ pc = "da_post"
    /\ LET posted == [da EXCEPT !.posts = @ + 1]
       IN \/ /\ da' = posted
             /\ Raise("HTTPError")
             /\ UNCHANGED queued_emails
          \/ \E ok \in BOOLEAN :
                IF ~ok
                THEN /\ da' = [posted EXCEPT !.ack = "not_ok"]
                     /\ Raise("ValueError")
                     /\ UNCHANGED queued_emails
                ELSE IF queued_emails.tag = "int"
                THEN /\ da' = [posted EXCEPT !.ack = "ok", !.email_queued = TRUE]
                     /\ Raise("TypeError")
                     /\ UNCHANGED queued_emails
                ELSE /\ da' = [posted EXCEPT !.ack = "ok", !.email_queued = TRUE]
                     /\ queued_emails' =
                            QDict(DictPut(queued_emails.d, da.soup.cur, da.soup))
                     /\ Return
                     /\ UNCHANGED exc
    /\ UNCHANGED <<top, calls, format, df, fl, inbox, mails, mn, dl_file, completed,
                 label, gm>>

\* DownloadPurchasedAlbum, had line 176 stood above the request of line 169.
DownloadPurchasedAlbumEarly ==
    /\ pc = "da_search"
    /\ Raise("UnboundLocalError")
    /\ UNCHANGED <<top, calls, format, queued_emails, df, da, fl, inbox, mails, mn,
                 dl_file, completed, label, gm>>

\* Line 161-176: _download_purchased_album posts the collection search, then
\* reads the local `tralbum` before line 178 binds it.
DownloadPurchasedAlbum ==
    /\ pc = "da_search"
    /\ \/ /\ da' = [da EXCEPT !.searches = @ + 1]
          /\ Raise("HTTPError")
       \/ \E results \in SearchResults :
            /\ da' = [da EXCEPT !.searches = @ + 1, !.results = results]
            /\ Raise("UnboundLocalError")
    /\ UNCHANGED <<top, calls, format, queued_emails, df, fl, inbox, mails, mn,
                 dl_file, completed, label, gm>>

\* Line 264-267: the download returned.
DownloadAlbumAfter ==
    /\ pc = "da_after"
    /\ da' = [da EXCEPT !.is_downloaded = TRUE, !.file_name = df.file_name]
    /\ df' = DfInit
    /\ Return
    /\ UNCHANGED <<top, exc, calls, format, queued_emails, fl, inbox, mails, mn,
                 dl_file, completed, label, gm>>

DownloadAlbum ==
    \/ DownloadAlbumStart
    \/ DownloadAlbumPost
    \/ DownloadPurchasedAlbum
    \/ DownloadAlbumAfter

\* ---------------------------------------------------- flush_email_downloads
TimeoutCycles == 5      \* line 340: timeout_count > 5

\* A message as get_email_list lists it and get_email fetches it.
\*   from_bc   mail_from == "noreply@bandcamp.com"
\*   subj_dl   "download" in mail_subject
\*   has_link  LINK_REGEX finds an anchor in mail_body
MsgShapes ==
    { [from_bc |-> TRUE, subj_dl |-> TRUE, has_link |-> TRUE],
      [from_bc |-> TRUE, subj_dl |-> TRUE, has_link |-> FALSE],
      [from_bc |-> TRUE, subj_dl |-> FALSE, has_link |-> TRUE],
      [from_bc |-> FALSE, subj_dl |-> TRUE, has_link |-> TRUE] }
Msg(n, sh) ==
    [ mail_id |-> n, from_bc |-> sh.from_bc, subj_dl |-> sh.subj_dl,
      has_link |-> sh.has_link ]

\* Line 324-327
Qualifies(email) == email.from_bc /\ email.subj_dl

MailLink(n) == Url("maillink", n)       \* the first anchor of message n's body

\*   checked_ids, downloaded, timeout_count, email_list   the locals
\*   todo      the messages of email_list the for loop has not reached
\*   cur       mail_id of the message in hand
\*   seen      the keys of queued_emails since the call began
\*   resends   calls of download_album made by the loop of line 343
\*   empty     polls in a row, up to the last one, that listed no message
\*             outside checked_ids (counted up to TimeoutCycles + 1)
\*   tried     the messages a download was started for, in order
EmptyFiles == [ k \in {} |-> NoFile ]
FlInit ==
    [ checked_ids |-> {}, downloaded |-> EmptyFiles, timeout_count |-> 0,
      email_list |-> {}, todo |-> {}, cur |-> 0, seen |-> {}, resends |-> 0,
      order |-> <<>>, empty |-> 0, tried |-> <<>> ]

\* The mailbox receives a message.  Only its order against the polls shows, so
\* it is delivered right before one.
MailArrives ==
    /\ pc = "fl_poll"
    /\ mails < MaxMails
    /\ \E sh \in MsgShapes : inbox' = inbox \cup { Msg(mails + 1, sh) }
    /\ mails' = mails + 1
    /\ UNCHANGED <<pc, stack, top, exc, calls, format, queued_emails, df, da, fl,
                 mn, dl_file, completed, label, gm>>

\* Line 314: while len(self.queued_emails) > 0
FlushWhile ==
    IF queued_emails'.tag = "int"
    THEN Raise("TypeError")
    ELSE IF Keys(queued_emails') = {}
    THEN Return /\ UNCHANGED exc
    ELSE pc' = "fl_poll" /\ UNCHANGED <<stack, exc>>

\* Line 309-314
FlushStart ==
    /\ pc = "fl_start"
    /\ fl' = [FlInit EXCEPT !.seen = Keys(queued_emails)]
    /\ UNCHANGED queued_emails
    /\ FlushWhile
    /\ UNCHANGED <<top, calls, format, df, da, inbox, mails, mn, dl_file, completed,
                 label, gm>>

\* Line 315-317: sleep, then list the mailbox.
FlushPoll ==
    /\ pc = "fl_poll"
    /\ \/ Raise("HTTPError") /\ UNCHANGED fl
       \/ /\ fl' = [fl EXCEPT !.email_list = inbox, !.todo = inbox,
                               !.empty = IF \E m \in inbox : m.mail_id \notin fl.checked_ids
                                         THEN 0
                                         ELSE IF @ > TimeoutCycles THEN @ ELSE @ + 1]
          /\ pc' = "fl_for"
          /\ UNCHANGED <<stack, exc>>
    /\ UNCHANGED <<top, calls, format, queued_emails, df, da, inbox, mails, mn,
                 dl_file, completed, label, gm>>

\* FlushFor, had lines 320-323 been left out: a message is examined each
\* time it is listed.
FlushForUnchecked ==
    /\ pc = "fl_for"
    /\ \E email \in fl.todo :
          /\ fl' = [fl EXCEPT !.timeout_count = 0, !.todo = @ \ {email},
                              !.cur = email.mail_id]
          /\ pc' = IF Qualifies(email) THEN "fl_fetch" ELSE "fl_for"
    /\ UNCHANGED <<stack, top, exc, calls, format, queued_emails, df, da, inbox,
                   mails, mn, dl_file, completed, label, gm>>

\* Line 318-327: one turn of the for loop, up to the message's fetch.
FlushFor ==
    /\ pc = "fl_for"
    /\ \E email \in fl.todo :
          LET turn == [fl EXCEPT !.timeout_count = 0, !.todo = @ \ {email}]
          IN IF email.mail_id \in fl.checked_ids
             THEN fl' = turn /\ UNCHANGED pc
             ELSE /\ fl' = [turn EXCEPT !.checked_ids = @ \cup {email.mail_id},
                                        !.cur = email.mail_id]
                  /\ pc' = IF Qualifies(email) THEN "fl_fetch" ELSE "fl_for"
    /\ UNCHANGED <<stack, top, exc, calls, format, queued_emails, df, da, inbox,
                 mails, mn, dl_file, completed, label, gm>>

\* Line 329-333: fetch the message, find its link, start the download.
FlushFetch ==
    /\ pc = "fl_fetch"
    /\ \/ Raise("HTTPError") /\ UNCHANGED <<df, fl>>
       \/ \E email \in fl.email_list :
            /\ email.mail_id = fl.cur
            /\ IF email.has_link
               THEN /\ df' = [DfInit EXCEPT !.url = MailLink(email.mail_id)]
                    /\ fl' = [fl EXCEPT !.tried = Append(@, email)]
                    /\ pc' = "df_page"
                    /\ stack' = <<"fl_pop">> \o stack
               ELSE /\ pc' = "fl_for"
                    /\ UNCHANGED <<df, fl, stack>>
            /\ UNCHANGED exc
    /\ UNCHANGED <<top, calls, format, queued_emails, da, inbox, mails, mn,
                   dl_file, completed, label, gm>>

\* FlushPop, had it removed the oldest request instead of the returned identity.
FlushPopOldest ==
    /\ pc = "fl_pop"
    /\ IF Keys(queued_emails) = {}
       THEN /\ Raise("KeyError")
            /\ UNCHANGED <<queued_emails, fl, df>>
       ELSE LET oldest == CHOOSE k \in Keys(queued_emails) :
                            \A j \in Keys(queued_emails) : k[2] <= j[2]
            IN /\ queued_emails' = QDict(DictPop(queued_emails.d, oldest))
               /\ fl' = [fl EXCEPT !.downloaded =
                           [ k \in DOMAIN @ \cup {df.id} |->
                               IF k = df.id THEN df.file_name ELSE @[k] ],
                                    !.order = IF df.id \in DOMAIN fl.downloaded
                                              THEN @ ELSE Append(@, df.id)]
               /\ df' = DfInit
               /\ pc' = "fl_for"
               /\ UNCHANGED <<stack, exc>>
    /\ UNCHANGED <<top, calls, format, da, inbox, mails, mn, dl_file, completed,
                 label, gm>>

\* Line 334-335: the download returned.
FlushPop ==
    /\ pc = "fl_pop"
    /\ IF df.id \notin Keys(queued_emails)
       THEN /\ Raise("KeyError")
            /\ UNCHANGED <<queued_emails, fl, df>>
       ELSE /\ queued_emails' = QDict(DictPop(queued_emails.d, df.id))
            /\ fl' = [fl EXCEPT !.downloaded =
                        [ k \in DOMAIN @ \cup {df.id} |->
                            IF k = df.id THEN df.file_name ELSE @[k] ],
                                 !.order = IF df.id \in DOMAIN fl.downloaded
                                           THEN @ ELSE Append(@, df.id)]
            /\ df' = DfInit
            /\ pc' = "fl_for"
            /\ UNCHANGED <<stack, exc>>
    /\ UNCHANGED <<top, calls, format, da, inbox, mails, mn, dl_file, completed,
                 label, gm>>

\* FlushEndFor, had line 342 emptied the dict ({} for 0): the resend loop runs
\* over nothing and the while loop ends.
FlushEndForEmptied ==
    /\ pc = "fl_for"
    /\ fl.todo = {}
    /\ \/ /\ fl.email_list # {}
          /\ Raise("HTTPError")
          /\ UNCHANGED <<fl, inbox, queued_emails>>
       \/ /\ \/ fl.email_list = {} /\ UNCHANGED inbox
             \/ fl.email_list # {} /\ inbox' = inbox \ fl.email_list
             \/ fl.email_list # {} /\ UNCHANGED inbox
          /\ fl' = [fl EXCEPT !.timeout_count = @ + 1]
          /\ queued_emails' = IF fl'.timeout_count > TimeoutCycles
                              THEN QDict(EmptyDict) ELSE queued_emails
          /\ FlushWhile
    /\ UNCHANGED <<top, calls, format, df, da, mails, mn, dl_file, completed,
                 label, gm>>

\* Line 336-346: the for loop is over: delete what was listed, count the cycle,
\* resend past the threshold, and test the while condition again.
FlushEndFor ==
    /\ pc = "fl_for"
    /\ fl.todo = {}
    /\ \/ /\ fl.email_list # {}
          /\ Raise("HTTPError")
          /\ UNCHANGED <<fl, inbox, queued_emails>>
       \/ /\ \/ fl.email_list = {} /\ UNCHANGED inbox
             \/ fl.email_list # {} /\ inbox' = inbox \ fl.email_list
             \/ fl.email_list # {} /\ UNCHANGED inbox
          /\ fl' = [fl EXCEPT !.timeout_count = @ + 1]
          /\ IF fl'.timeout_count > TimeoutCycles
             THEN /\ queued_emails' = QInt
                  /\ Raise("TypeError")
             ELSE /\ UNCHANGED queued_emails
                  /\ FlushWhile
    /\ UNCHANGED <<top, calls, format, df, da, mails, mn, dl_file, completed,
                 label, gm>>

FlushEmailDownloads ==
    \/ FlushStart
    \/ FlushPoll
    \/ FlushFor
    \/ FlushFetch
    \/ FlushPop
    \/ FlushEndFor

\* --------------------------------------------------------------------- main
\* downloaded.txt holds one line per release: <<"a", n>> is the text "a:n",
\* <<"t", n>> is "t:n", and <<"url", n>> is the bare URL of release n.
FirstChar(type) == IF type = "album" THEN "a" ELSE IF type = "track" THEN "t" ELSE "?"

\* add_to_dl_file, had it written the type whole (id[0] for id[0][0]).
add_to_dl_file_whole_type(file, id) == Append(file, <<id[1], id[2]>>)

\* Line 117-120: f.write(f"{id[0][0]}:{id[1]}\n")
add_to_dl_file(file, id) == Append(file, <<FirstChar(id[1]), id[2]>>)

\* Line 134-143: how one line is read back.
ParseLine(line) ==
    IF line[1] = "a" THEN <<"album", line[2]>>
    ELSE IF line[1] = "t" THEN <<"track", line[2]>>
    ELSE <<"url", line[2]>>

\* Line 130-145
get_downloaded(file) == { ParseLine(file[i]) : i \in DOMAIN file }

\* A str is never equal to a tuple, and get_downloaded and main put only tuples
\* in the set.
StrEqTuple(url, entry) == FALSE

\* is_downloaded, had it asked for both keys.
is_downloaded_both(downloaded_set, id, url) ==
    id \in downloaded_set /\ \E e \in downloaded_set : StrEqTuple(url, e)

\* Line 114-115: id in downloaded_set or url in downloaded_set
is_downloaded(downloaded_set, id, url) ==
    id \in downloaded_set \/ \E e \in downloaded_set : StrEqTuple(url, e)

\* The history files a run may start from.
InitialFiles ==
    { <<>>, << <<"a", 1>> >>, << <<"t", 2>> >>, << <<"url", 1>> >> }

\* The URLs given on the command line: release pages, a label page, and a page
\* that is neither.
InputUrls ==
    { Url("release", n) : n \in 1..MaxId } \cup { Url("label", 1), Url("page", 1) }

\* A label page as get_label_info reads it.
\*   data_band     the page has a script with a data-band attribute
\*   grid          the <li> items of ol#music-grid, in page order: the release
\*                 number, whether the style holds display:none, the href
\*   client_items  the ol has a data-client-items attribute
\*   items         the objects of that attribute's JSON, in order: the release
\*                 number, the "filtered" flag, the page_url
\* An href or page_url is absolute, Url("release", n), or a path that starts
\* with "/", Url("/release", n).
HtmlLi(n, hidden, relative) ==
    [ n |-> n, hidden |-> hidden,
      href |-> IF relative THEN Url("/release", n) ELSE Url("release", n) ]
ClientItem(n, filtered, relative) ==
    [ n |-> n, filtered |-> filtered,
      page_url |-> IF relative THEN Url("/release", n) ELSE Url("release", n) ]
LabelPage(b, g, c, i) == [data_band |-> b, grid |-> g, client_items |-> c, items |-> i]
NoLabelPage == LabelPage(FALSE, <<>>, FALSE, <<>>)
NoLabel == [page |-> NoLabelPage, err |-> "unparsed", releases |-> <<>>]

\* Line 406-408: release["url"][0] == "/" and urljoin(local_url, release["url"])
StartsWithSlash(u) == u.kind = "/release"
urljoin(u) == IF StartsWithSlash(u) THEN Url("release", u.key) ELSE u

\* Line 387 and 399: the items that are kept.
NotHidden(li) == ~li.hidden
NotFiltered(obj) == ~obj.filtered

\* Line 390-397 and 402-403: an item as a release, before the URL fixup.
RelOfLi(li) == [id |-> <<TypeOf(li.n), li.n>>, url |-> li.href]
RelOfItem(obj) == [id |-> <<TypeOf(obj.n), obj.n>>, url |-> obj.page_url]

\* Line 374-413.  Without the data-client-items attribute grid.get returns its
\* default, the dict {}; html.unescape hands it back and json.loads raises
\* TypeError on it.
get_label_info(lp) ==
    IF ~lp.data_band
    THEN [err |-> "BCFreeDownloadError: Page has no data-band.", releases |-> <<>>]
    ELSE IF ~lp.client_items
    THEN [err |-> "TypeError", releases |-> <<>>]
    ELSE LET kept == SelectSeq(lp.grid, NotHidden)
             more == SelectSeq(lp.items, NotFiltered)
             releases == [ i \in 1..Len(kept) |-> RelOfLi(kept[i]) ]
                            \o [ i \in 1..Len(more) |-> RelOfItem(more[i]) ]
         IN [ err |-> "none",
              releases |-> [ i \in 1..Len(releases) |->
                               [releases[i] EXCEPT !.url = urljoin(@)] ] ]

\* The label pages main is served: up to MaxRels releases of the storefront,
\* the first of them in the HTML list and the rest in the JSON catalog, all
\* shown and with paths for URLs; the same pages without the
\* data-client-items attribute; and a page without data-band.
Listings ==
    UNION { [1..k -> 1..MaxId] : k \in 0..MaxRels }
ServedLabelPages ==
    { LabelPage(TRUE,
                [ i \in 1..h |-> HtmlLi(r[i], FALSE, TRUE) ],
                c,
                [ i \in 1..(Len(r) - h) |-> ClientItem(r[h + i], FALSE, TRUE) ]) :
        <<r, h, c>> \in { t \in Listings \X (0..MaxRels) \X BOOLEAN :
                            t[2] <= Len(t[1]) /\ (t[3] \/ t[2] = Len(t[1])) } }
        \cup { NoLabelPage }

\* A fetched page: its og:type, the release it shows (album and song pages)
\* and the label page it is (band pages).
Page(t, s, l) == [og_type |-> t, soup |-> s, label |-> l]

\* main calls downloader.get_url_soup(url), which the class does not define.
\* It is taken to fetch as get_url does (line 349-352): the pages the URL may
\* serve.  A release URL serves the page of its own release; the request may
\* also fail, which the calling action raises as HTTPError.
get_url_soup(url) ==
    IF url.kind = "release"
    THEN { Page(IF TypeOf(url.key) = "album" THEN "album" ELSE "song", s, NoLabelPage) :
             s \in { t \in Soups : t.cur = <<TypeOf(url.key), url.key>> } }
    ELSE IF url.kind = "label"
    THEN { Page("band", NoSoup, lp) : lp \in ServedLabelPages }
    ELSE { Page("website", NoSoup, NoLabelPage) }

\* Line 361-371: the page's kind, or the NameError of line 370, where url is
\* not a name in scope.
get_page_info(page) ==
    IF page.og_type \in {"album", "song"} THEN page.og_type
    ELSE IF page.og_type = "band" THEN "band"
    ELSE "NameError"

\*   force       arguments["--force"]
\*   n           the input URLs taken so far
\*   url, cur    the URL and the (type, id) of the release at hand
\*   from_label  the release at hand comes from a label page's listing
\*   rels        the listed releases still to do
\*   fetches     the requests main itself has issued for the release at hand
\*   skipped     line 210 / 224 was reached for the release at hand
\*   downloaded  the set get_downloaded returned, with what main added
\*   len0        the number of lines downloaded.txt had when the run began
MnInit ==
    [ force |-> FALSE, n |-> 0, url |-> NoUrl, cur |-> NoId, from_label |-> FALSE,
      rels |-> <<>>, fetches |-> 0, skipped |-> FALSE, downloaded |-> {},
      len0 |-> 0 ]

\* MainOptions, had it let any format through.
MainOptionsUnchecked ==
    /\ pc = "main_start"
    /\ pc' = "main_construct"
    /\ UNCHANGED <<stack, top, exc, calls, format, queued_emails, df, da, fl, inbox,
                   mails, mn, dl_file, completed, label, gm>>

\* Line 157-170: the format test.  On a bad format the error message is built
\* from options["format"], and options is a dataclass: TypeError.
MainOptions ==
    /\ pc = "main_start"
    /\ IF format \notin DOMAIN FORMATS
       THEN Raise("TypeError")
       ELSE pc' = "main_construct" /\ UNCHANGED <<stack, exc>>
    /\ UNCHANGED <<top, calls, format, queued_emails, df, da, fl, inbox, mails, mn,
                 dl_file, completed, label, gm>>

\* Line 192-194.  BCFreeDownloader(options) leaves out config_dir and
\* download_history_file, which __init__ (line 54-61) requires; the run is
\* followed as it goes on once the downloader is constructed.
MainConstruct ==
    /\ pc = "main_construct"
    /\ queued_emails' = QDict(EmptyDict)
    /\ mn' = [mn EXCEPT !.downloaded = get_downloaded(dl_file)]
    /\ pc' = "main_loop"
    /\ UNCHANGED <<stack, top, exc, calls, format, df, da, fl, inbox, mails,
                 dl_file, completed, label, gm>>

\* MainAfterAlbum, had it recorded the release whatever download_album returned.
MainAfterAlbumAlways ==
    /\ pc = "main_after_album"
    /\ dl_file' = add_to_dl_file(dl_file, mn.cur)
    /\ mn' = [mn EXCEPT !.downloaded = @ \cup {mn.cur}]
    /\ pc' = IF mn.from_label THEN "main_rel" ELSE "main_loop"
    /\ UNCHANGED <<stack, top, exc, calls, format, queued_emails, df, da, fl, inbox,
                 mails, completed, label, gm>>

\* Line 212-214 and 227-229: download_album returned.
MainAfterAlbum ==
    /\ pc = "main_after_album"
    /\ IF da.is_downloaded
       THEN /\ dl_file' = add_to_dl_file(dl_file, mn.cur)
            /\ mn' = [mn EXCEPT !.downloaded = @ \cup {mn.cur}]
       ELSE UNCHANGED <<dl_file, mn>>
    /\ pc' = IF mn.from_label THEN "main_rel" ELSE "main_loop"
    /\ UNCHANGED <<stack, top, exc, calls, format, queued_emails, df, da, fl, inbox,
                 mails, completed, label, gm>>

\* Line 196: the next input URL; line 234: or, past the last one, the drain.
\* The loop variables and the frames of the calls made for the last release
\* are dead when a new one is taken up.
MainLoop ==
    /\ pc = "main_loop"
    /\ \/ /\ mn.n < MaxUrls
          /\ \E u \in InputUrls :
                mn' = [mn EXCEPT !.n = @ + 1, !.url = u, !.cur = NoId,
                                 !.from_label = FALSE, !.rels = <<>>,
                                 !.fetches = 0, !.skipped = FALSE]
          /\ pc' = "main_fetch"
          /\ UNCHANGED stack
       \/ /\ mn.n >= 1
          /\ mn' = [mn EXCEPT !.url = NoUrl, !.cur = NoId, !.from_label = FALSE,
                              !.rels = <<>>, !.fetches = 0, !.skipped = FALSE]
          /\ pc' = "fl_start"
          /\ stack' = <<"main_after_flush">>
    /\ da' = DaInit(NoSoup)
    /\ df' = DfInit
    /\ UNCHANGED <<top, exc, calls, format, queued_emails, fl, inbox, mails,
                 dl_file, completed, label, gm>>

\* Line 197-211 and 215: the page of the input URL is fetched and told apart;
\* a release page is tested against the history and handed to download_album.
MainFetch ==
    /\ pc = "main_fetch"
    /\ \/ /\ mn' = [mn EXCEPT !.fetches = @ + 1]
          /\ Raise("HTTPError")
          /\ UNCHANGED da
       \/ \E page \in get_url_soup(mn.url) :
            LET urltype == get_page_info(page)
                id == page.soup.cur
                url == ReleaseUrl(page.soup)
                got == [mn EXCEPT !.fetches = @ + 1]
            IN IF urltype \in {"album", "song"}
               THEN IF ~mn.force /\ is_downloaded(mn.downloaded, id, url)
                    THEN /\ mn' = [got EXCEPT !.cur = id, !.url = url,
                                              !.skipped = TRUE]
                         /\ pc' = "main_loop"
                         /\ UNCHANGED <<da, stack, exc>>
                    ELSE /\ mn' = [got EXCEPT !.cur = id, !.url = url]
                         /\ da' = DaInit(page.soup)
                         /\ pc' = "da_start"
                         /\ stack' = <<"main_after_album">>
                         /\ UNCHANGED exc
               ELSE IF urltype = "band"
               THEN IF get_label_info(page.label).err # "none"
                    THEN /\ mn' = got
                         /\ Raise(get_label_info(page.label).err)
                         /\ UNCHANGED da
                    ELSE /\ mn' = [got EXCEPT !.rels = get_label_info(page.label).releases]
                         /\ pc' = "main_rel"
                         /\ UNCHANGED <<da, stack, exc>>
               ELSE /\ mn' = got
                    /\ Raise("NameError")
                    /\ UNCHANGED da
    /\ UNCHANGED <<top, calls, format, queued_emails, df, fl, inbox, mails, dl_file,
                 completed, label, gm>>

\* Line 216-224: the next listed release, tested against the history before
\* anything is asked of the storefront for it.
MainRel ==
    /\ pc = "main_rel"
    /\ IF mn.rels = <<>>
       THEN /\ pc' = "main_loop"
            /\ UNCHANGED <<mn, da, df>>
       ELSE LET rel == Head(mn.rels)
                taken == [mn EXCEPT !.cur = rel.id, !.url = rel.url,
                                    !.from_label = TRUE, !.rels = Tail(@),
                                    !.fetches = 0]
            IN /\ IF ~mn.force /\ is_downloaded(mn.downloaded, rel.id, rel.url)
                  THEN /\ mn' = [taken EXCEPT !.skipped = TRUE]
                       /\ pc' = "main_rel"
                  ELSE /\ mn' = [taken EXCEPT !.skipped = FALSE]
                       /\ pc' = "main_rel_fetch"
               /\ da' = DaInit(NoSoup)
               /\ df' = DfInit
    /\ UNCHANGED <<stack, top, exc, calls, format, queued_emails, fl, inbox, mails,
                 dl_file, completed, label, gm>>

\* Line 225-226: the listed release's page is fetched and handed to
\* download_album.
MainRelFetch ==
    /\ pc = "main_rel_fetch"
    /\ mn' = [mn EXCEPT !.fetches = @ + 1]
    /\ \/ /\ Raise("HTTPError")
          /\ UNCHANGED da
       \/ \E page \in get_url_soup(mn.url) :
            /\ da' = DaInit(page.soup)
            /\ pc' = "da_start"
            /\ stack' = <<"main_after_album">>
            /\ UNCHANGED exc
    /\ UNCHANGED <<top, calls, format, queued_emails, df, fl, inbox, mails, dl_file,
                 completed, label, gm>>

\* Line 235-237: what the drain downloaded is recorded, in the order the
\* drain downloaded it.
MainAfterFlush ==
    /\ pc = "main_after_flush"
    /\ dl_file' = dl_file \o [ i \in 1..Len(fl.order) |->
                                 <<FirstChar(fl.order[i][1]), fl.order[i][2]>> ]
    /\ mn' = [mn EXCEPT !.downloaded = @ \cup DOMAIN fl.downloaded]
    /\ pc' = "main_done"
    /\ UNCHANGED <<stack, top, exc, calls, format, queued_emails, df, da, fl, inbox,
                 mails, completed, label, gm>>

Main ==
    \/ MainOptions
    \/ MainConstruct
    \/ MainLoop
    \/ MainFetch
    \/ MainAfterAlbum
    \/ MainRel
    \/ MainRelFetch
    \/ MainAfterFlush

\* A run of main with URL arguments: any valid or invalid format, with or
\* without --force, over any of the history files.
InitMain ==
    /\ pc = "main_start"
    /\ stack = <<>>
    /\ top = "main"
    /\ exc = "none"
    /\ calls = 0
    /\ format \in FormatInputs
    /\ queued_emails = QDict(EmptyDict)
    /\ df = DfInit
    /\ da = DaInit(NoSoup)
    /\ fl = FlInit
    /\ inbox = {}
    /\ mails = 0
    /\ \E f \in BOOLEAN, file \in InitialFiles :
          /\ mn = [MnInit EXCEPT !.force = f, !.len0 = Len(file)]
          /\ dl_file = file
    /\ completed = [ i \in Ids |-> 0 ]
    /\ label = NoLabel
    /\ gm = GmInit

NextMain ==
    \/ Main
    \/ DownloadAlbum
    \/ DownloadFile
    \/ MailArrives
    \/ FlushEmailDownloads

SpecMain == InitMain /\ [][NextMain]_vars


\* ------------------------------------------------------------------- client
\* A client holds a constructed BCFreeDownloader (its fields as __init__,
\* line 62-70, leaves them) and calls download_album on one page after another.
\* The call is over and its frames are gone; the downloader keeps its fields.
ClientResumes ==
    /\ pc = "returned"
    /\ calls < MaxCalls
    /\ pc' = "idle"
    /\ exc' = "none"
    /\ df' = DfInit
    /\ da' = DaInit(NoSoup)
    /\ UNCHANGED <<stack, top, calls, format, queued_emails, fl, inbox, mails, mn,
                 dl_file, completed, label, gm>>

CallDownloadAlbum ==
    /\ pc = "idle"
    /\ calls < MaxCalls
    /\ \E s \in Soups : da' = DaInit(s)
    /\ pc' = "da_start"
    /\ stack' = <<"returned">>
    /\ calls' = calls + 1
    /\ UNCHANGED <<top, exc, format, queued_emails, df, fl, inbox, mails, mn,
                 dl_file, completed, label, gm>>

Init ==
    /\ pc = "idle"
    /\ stack = <<>>
    /\ top = "client"
    /\ exc = "none"
    /\ calls = 0
    /\ format \in FormatInputs
    /\ queued_emails = QDict(EmptyDict)
    /\ df = DfInit
    /\ da = DaInit(NoSoup)
    /\ fl = FlInit
    /\ inbox = {}
    /\ mails = 0
    /\ mn = MnInit
    /\ dl_file = <<>>
    /\ completed = [ i \in Ids |-> 0 ]
    /\ label = NoLabel
    /\ gm = GmInit

Next ==
    \/ ClientResumes
    \/ CallDownloadAlbum
    \/ DownloadAlbum
    \/ DownloadFile

Spec == Init /\ [][Next]_vars

\* ---------------------------------------------------------------- the drain
\* flush_email_downloads called on a downloader whose queue download_album
\* filled: any dict of email-gated pages, each under its own (type, id).
EmailGated ==
    { s \in Soups : /\ s.hasAudio /\ s.matched /\ ~s.freeDownloadPage
                    /\ s.offers.has /\ s.offers.price = 0 }
QueuedDicts ==
    UNION { { f \in [S -> EmailGated] : \A k \in S : f[k].cur = k } :
            S \in SUBSET Ids }

InitFlush ==
    /\ pc = "fl_start"
    /\ stack = <<"returned">>
    /\ top = "client"
    /\ exc = "none"
    /\ calls = 1
    /\ format \in FormatInputs
    /\ \E f \in QueuedDicts : queued_emails = QDict(f)
    /\ df = DfInit
    /\ da = DaInit(NoSoup)
    /\ fl = FlInit
    /\ inbox = {}
    /\ mails = 0
    /\ mn = MnInit
    /\ dl_file = <<>>
    /\ completed = [ i \in Ids |-> 0 ]
    /\ label = NoLabel
    /\ gm = GmInit

NextFlush ==
    \/ MailArrives
    \/ FlushEmailDownloads
    \/ DownloadFile

SpecFlush == InitFlush /\ [][NextFlush]_vars

\* -------------------------------------------------------------- the history
\* The three history functions of __main__.py on their own: lines are
\* appended to any of the history files, the file is loaded, and the loaded set
\* is asked about any identity and URL.  mn.downloaded holds the loaded set,
\* mn.cur and mn.url the last question, mn.skipped its answer.
HistAdd ==
    /\ pc = "hist"
    /\ Len(dl_file) < MaxLines
    /\ \E id \in Ids : dl_file' = add_to_dl_file(dl_file, id)
    /\ UNCHANGED <<pc, stack, top, exc, calls, format, queued_emails, df, da, fl,
                 inbox, mails, mn, completed, label, gm>>

HistLoad ==
    /\ pc = "hist"
    /\ mn' = [mn EXCEPT !.downloaded = get_downloaded(dl_file)]
    /\ UNCHANGED <<pc, stack, top, exc, calls, format, queued_emails, df, da, fl,
                 inbox, mails, dl_file, completed, label, gm>>

HistAsk ==
    /\ pc = "hist"
    /\ \E id \in Ids, n \in 1..MaxId :
          mn' = [mn EXCEPT !.cur = id, !.url = Url("release", n),
                           !.skipped = is_downloaded(mn.downloaded, id,
                                                     Url("release", n))]
    /\ UNCHANGED <<pc, stack, top, exc, calls, format, queued_emails, df, da, fl,
                 inbox, mails, dl_file, completed, label, gm>>

InitHistory ==
    /\ pc = "hist"
    /\ stack = <<>>
    /\ top = "client"
    /\ exc = "none"
    /\ calls = 0
    /\ format \in FormatInputs
    /\ queued_emails = QDict(EmptyDict)
    /\ df = DfInit
    /\ da = DaInit(NoSoup)
    /\ fl = FlInit
    /\ inbox = {}
    /\ mails = 0
    /\ \E file \in InitialFiles :
          /\ mn = [MnInit EXCEPT !.len0 = Len(file)]
          /\ dl_file = file
    /\ completed = [ i \in Ids |-> 0 ]
    /\ label = NoLabel
    /\ gm = GmInit

NextHistory ==
    \/ HistAdd
    \/ HistLoad
    \/ HistAsk

SpecHistory == InitHistory /\ [][NextHistory]_vars

\* ------------------------------------------------- get_label_info alone
\* The label pages get_label_info is applied to: up to MaxGrid <li> items and
\* up to MaxCat catalog items, each shown or not and with either form of URL,
\* with or without the two attributes.  The releases are numbered in page
\* order, the catalog after the HTML list.
Flags(max) == UNION { [1..k -> BOOLEAN \X BOOLEAN] : k \in 0..max }
LabelPages ==
    { LabelPage(b,
                [ i \in 1..Len(g) |-> HtmlLi(i, g[i][1], g[i][2]) ],
                c,
                [ i \in 1..Len(j) |-> ClientItem(MaxGrid + i, j[i][1], j[i][2]) ]) :
        <<b, g, c, j>> \in BOOLEAN \X Flags(MaxGrid) \X BOOLEAN \X Flags(MaxCat) }

LabelParse ==
    /\ pc = "label"
    /\ label.err = "unparsed"
    /\ LET info == get_label_info(label.page)
       IN label' = [label EXCEPT !.err = info.err, !.releases = info.releases]
    /\ UNCHANGED <<pc, stack, top, exc, calls, format, queued_emails, df, da, fl,
                   inbox, mails, mn, dl_file, completed, gm>>

InitLabel ==
    /\ pc = "label"
    /\ stack = <<>>
    /\ top = "client"
    /\ exc = "none"
    /\ calls = 0
    /\ format = "FLAC"
    /\ queued_emails = EmptyDict
    /\ df = DfInit
    /\ da = DaInit(NoSoup)
    /\ fl = FlInit
    /\ inbox = <<>>
    /\ mails = 0
    /\ mn = MnInit
    /\ dl_file = <<>>
    /\ completed = [id \in Ids |-> 0]
    /\ label \in { [NoLabel EXCEPT !.page = lp] : lp \in LabelPages }
    /\ gm = GmInit

NextLabel == LabelParse

SpecLabel == InitLabel /\ [][NextLabel]_vars

\* ------------------------------------------------------- GMSession alone
\* A new GMSession, called in any order at any times.
InitMail ==
    /\ pc = "gm"
    /\ stack = <<>>
    /\ top = "client"
    /\ exc = "none"
    /\ calls = 0
    /\ format = "FLAC"
    /\ queued_emails = QDict(EmptyDict)
    /\ df = DfInit
    /\ da = DaInit(NoSoup)
    /\ fl = FlInit
    /\ inbox = {}
    /\ mails = 0
    /\ mn = MnInit
    /\ dl_file = <<>>
    /\ completed = [ i \in Ids |-> 0 ]
    /\ label = NoLabel
    /\ gm = GmInit

NextMail ==
    \/ GMSleep
    \/ GMGet
    \/ GMGetEmailAddress

SpecMail == InitMail /\ [][NextMail]_vars

\* ================================================================== claims
InDownloadFile == pc \in {"df_page", "df_primary", "df_stat", "df_secondary"}
HasAudioAndRecord(s) == s.hasAudio /\ s.matched

\* C1: _download_file makes at most two streaming attempts and one statdownload
\* request.  A primary attempt that succeeds is followed by neither.  The
\* statdownload request goes to the primary URL with /download/ replaced by
\* /statdownload/, and when its response holds a retry URL, exactly one secondary
\* attempt is made, against that URL, and nothing follows it.
C1_OneSecondaryAttempt ==
    LET a == df.attempts
        found == df.stat_body.has_retry /\ df.stat_body.retry_url # EmptyUrl
    IN /\ Len(a) <= 2
       /\ Len(df.stat) <= 1
       /\ (pc \in {"df_page", "df_primary"}) => (a = <<>> /\ df.stat = <<>>)
       /\ (Len(a) = 1 /\ df.file_name # NoFile) => (df.stat = <<>>)
       /\ (df.stat # <<>>) =>
             (Len(a) >= 1 /\ df.stat[1] = StatdownloadUrl(a[1]))
       /\ found =>
             \/ pc = "df_secondary" /\ Len(a) = 1
             \/ pc # "df_secondary" /\ ~InDownloadFile /\ Len(a) = 2
       /\ (Len(a) = 2) => (found /\ a[2] = df.stat_body.retry_url)

\* C1's case: the secondary attempt was made and succeeded.
C1_Witness ==
    /\ pc = "da_after"
    /\ Len(df.attempts) = 2
    /\ df.attempts[2] \in RetryUrls
    /\ df.file_name \in FileNames

\* C2: when the primary attempt failed and the statdownload response held no
\* retry_url field, _download_file ends with the DownloadExpired error and has
\* made no further attempt.
C2_MissingRetryUrlExpires ==
    (/\ pc = "returned"
     /\ df.stat # <<>>
     /\ df.stat_body # NoBody
     /\ ~df.stat_body.has_retry)
        => (exc = DownloadExpired /\ Len(df.attempts) = 1)

\* download_album has been invoked for the release main has at hand, and main
\* has not yet gone on from its return.
AlbumInvoked ==
    \/ pc = "main_after_album"
    \/ stack # <<>> /\ stack[Len(stack)] = "main_after_album"

\* The release at hand is one a run without --force has to skip.
KnownUnforced == mn.cur # NoId /\ ~mn.force /\ mn.cur \in mn.downloaded

\* What C3 and its amendment share: download_album is never invoked for a
\* release the history holds, nor is a listed release's page about to be
\* fetched; such a release is skipped unless this run downloaded it itself;
\* and a skip leaves no frame of download_album or _download_file behind.
SkipsKnown ==
    /\ (AlbumInvoked \/ pc = "main_rel_fetch") => ~KnownUnforced
    /\ (top = "main" /\ KnownUnforced) => (mn.skipped \/ da.is_downloaded)
    /\ mn.skipped =>
         (KnownUnforced /\ da = DaInit(NoSoup) /\ df = DfInit /\ ~AlbumInvoked)

C4_DirectFree ==
    LET s == da.soup
    IN (HasAudioAndRecord(s) /\ s.freeDownloadPage /\ pc \notin {"idle", "da_start"})
        => /\ da.dl_calls = <<FreePageUrl(s)>>
           /\ da.posts = 0
           /\ da.searches = 0
           /\ queued_emails = da.queued_before
           /\ InDownloadFile \/ pc \in {"da_after", "returned"}
           /\ InDownloadFile => (df.url = FreePageUrl(s))
           /\ (pc = "returned" /\ exc = "none") =>
                 (da.is_downloaded /\ ~da.email_queued /\ da.file_name \in FileNames)

\* C4's case: a free-download page on a release whose price is zero and which
\* the viewer bought was downloaded directly.
C4_Witness ==
    /\ pc = "returned"
    /\ exc = "none"
    /\ da.soup.hasAudio
    /\ da.soup.freeDownloadPage
    /\ da.soup.offers = [has |-> TRUE, price |-> 0]
    /\ da.soup.is_purchased
    /\ da.is_downloaded

\* C5: a page with audio, a matching release record, no free-download page and a
\* price of zero gets exactly one email-capture POST and no download; when the
\* call returns, the queue holds the page under its (type, id) and the result
\* says queued and not downloaded.
C5_EmailGated ==
    LET s == da.soup
    IN (/\ HasAudioAndRecord(s) /\ ~s.freeDownloadPage
        /\ s.offers.has /\ s.offers.price = 0
        /\ pc \notin {"idle", "da_start"})
        => /\ pc \in {"da_post", "returned"}
           /\ da.dl_calls = <<>>
           /\ da.searches = 0
           /\ da.posts = IF pc = "da_post" THEN 0 ELSE 1
           /\ (pc = "returned" /\ exc = "none") =>
                 /\ queued_emails.tag = "dict"
                 /\ Keys(queued_emails) = Keys(da.queued_before) \cup {s.cur}
                 /\ queued_emails.d[s.cur] = s
                 /\ da.email_queued
                 /\ ~da.is_downloaded

\* C5's case: a second release was queued beside the first.
C5_Witness ==
    /\ pc = "returned"
    /\ exc = "none"
    /\ da.email_queued
    /\ da.posts = 1
    /\ Cardinality(Keys(queued_emails)) = 2

\* C6: a page with audio, a matching release record, no free-download page, a
\* price that is not zero and is_purchased gets exactly one collection search
\* and no email-capture POST.
C6_PurchasedSearch ==
    LET s == da.soup
    IN (/\ HasAudioAndRecord(s) /\ ~s.freeDownloadPage
        /\ s.offers.has /\ s.offers.price # 0 /\ s.is_purchased
        /\ pc \notin {"idle", "da_start"})
        => /\ pc \in {"da_search", "returned"}
           /\ da.posts = 0
           /\ da.searches = IF pc = "da_search" THEN 0 ELSE 1

\* C6's case: the collection search was answered.
C6_Witness ==
    /\ pc = "returned"
    /\ da.soup.is_purchased
    /\ da.soup.offers.price # 0
    /\ da.searches = 1
    /\ exc = "UnboundLocalError"

\* C7: when a download started for a message returns an identity the queue
\* holds, the drain removes that key and no other, leaves every other request
\* as it was, and maps the identity to the file downloaded.
C7_PopsReturnedIdentity ==
    [][ (pc = "fl_pop" /\ df.id \in Keys(queued_emails)) =>
            /\ Keys(queued_emails') = Keys(queued_emails) \ {df.id}
            /\ \A k \in Keys(queued_emails') : queued_emails'.d[k] = queued_emails.d[k]
            /\ df.id \in DOMAIN fl'.downloaded
            /\ fl'.downloaded[df.id] = df.file_name
            /\ \A k \in DOMAIN fl.downloaded \ {df.id} :
                    k \in DOMAIN fl'.downloaded /\ fl'.downloaded[k] = fl.downloaded[k]
      ]_vars

\* C7's case: of two requests, the one enqueued last was answered first.
C7_Witness ==
    /\ pc = "fl_for"
    /\ Cardinality(fl.seen) = 2
    /\ Keys(queued_emails) = { <<TypeOf(1), 1>> }
    /\ DOMAIN fl.downloaded = { <<TypeOf(2), 2>> }

\* C8: the cycle that takes the no-new-message counter past the threshold with
\* requests pending resends each of them once, keeps them pending and leaves the
\* counter at zero.
C8_ResendKeepsPending ==
    [][ (/\ pc = "fl_for" /\ fl.todo = {}
         /\ fl.timeout_count + 1 > TimeoutCycles
         /\ Keys(queued_emails) # {}
         /\ exc' # "HTTPError")
            => /\ queued_emails'.tag = "dict"
               /\ Keys(queued_emails') = Keys(queued_emails)
               /\ fl'.resends = Cardinality(Keys(queued_emails))
               /\ fl'.timeout_count = 0
      ]_vars

\* C9: when flush_email_downloads returns, the queue is empty and the mapping
\* it returns holds a file for every identity the queue held during the call.
C9_ReturnCoversAll ==
    (pc = "returned" /\ exc = "none")
        => /\ queued_emails.tag = "dict"
           /\ Keys(queued_emails) = {}
           /\ fl.seen \subseteq DOMAIN fl.downloaded
           /\ \A k \in DOMAIN fl.downloaded : fl.downloaded[k] \in FileNames

\* C9's case: two requests were pending and the call returned.
C9_Witness ==
    /\ pc = "returned"
    /\ exc = "none"
    /\ Cardinality(fl.seen) = 2

\* The lines this run appended to downloaded.txt that name identity id.
AppendedFor(id) ==
    { i \in (mn.len0 + 1)..Len(dl_file) : ParseLine(dl_file[i]) = id }

RunEnded == top = "main" /\ pc \in {"main_done", "main_crashed"}

C12_UrlIsSecondaryKey ==
    (/\ mn.cur # NoId
     /\ mn.url.kind = "release"
     /\ <<"url", mn.url.key>> \in mn.downloaded)
        => is_downloaded(mn.downloaded, mn.cur, mn.url)

\* C13: each write of add_to_dl_file adds exactly its identity to the set
\* get_downloaded returns, and nothing else changes the file.  So after any
\* writes, in any order and with duplicates, the set loaded is the set loaded
\* before them together with the identities written.
C13_RoundTrip ==
    [][ dl_file' # dl_file =>
          \E id \in Ids :
             /\ dl_file' = add_to_dl_file(dl_file, id)
             /\ get_downloaded(dl_file') = get_downloaded(dl_file) \cup {id}
      ]_vars

\* C13's case: an album and a track were written to an empty file, one of them
\* twice, and the file was loaded.
C13_Witness ==
    /\ pc = "hist"
    /\ mn.len0 = 0
    /\ Len(dl_file) = 3
    /\ dl_file[1] = dl_file[3]
    /\ mn.downloaded = { <<"album", 1>>, <<"track", 2>> }
    /\ mn.downloaded = get_downloaded(dl_file)

ShownLis == { i \in 1..Len(label.page.grid) : ~label.page.grid[i].hidden }
ShownItems == { i \in 1..Len(label.page.items) : ~label.page.items[i].filtered }
RankIn(S, i) == Cardinality({ k \in S : k <= i })
C15_LabelMerge ==
    (pc = "label" /\ label.err # "unparsed" /\ label.page.data_band) =>
        /\ label.err = "none"
        /\ Len(label.releases) = Cardinality(ShownLis) + Cardinality(ShownItems)
        /\ \A i \in ShownLis :
               label.releases[RankIn(ShownLis, i)] =
                   [ id |-> <<TypeOf(i), i>>, url |-> Url("release", i) ]
        /\ \A i \in ShownItems :
               label.releases[Cardinality(ShownLis) + RankIn(ShownItems, i)] =
                   [ id |-> <<TypeOf(MaxGrid + i), MaxGrid + i>>,
                     url |-> Url("release", MaxGrid + i) ]

\* C16: in a run of main with a format that is not a key of FORMATS, the run
\* ends at the format test: no page is fetched, no form posted, no collection
\* searched, no file requested and the mailbox never polled.
NoRequestIssued ==
    /\ mn.fetches = 0
    /\ da.posts = 0 /\ da.searches = 0
    /\ df = DfInit
    /\ fl = FlInit
    /\ pc \in {"main_start", "main_crashed"}
C16_BadFormatNoNetwork ==
    (top = "main" /\ format \notin DOMAIN FORMATS) => NoRequestIssued
C16_Witness ==
    /\ top = "main" /\ format \notin DOMAIN FORMATS
    /\ pc = "main_crashed" /\ exc = "TypeError" /\ NoRequestIssued

\* C17: once the collection search is answered, _download_purchased_album
\* calls _download_file when the response has the release's entry and its
\* redownload URL, and otherwise ends with BCFreeDownloadError without any
\* download.
NotFoundInCollection ==
    { "BCFreeDownloadError: Could not find album in collection",
      "BCFreeDownloadError: Could not find album download URL in collection" }
C17_PurchasedResolves ==
    (top = "client" /\ pc = "returned" /\ da.results # NoResults) =>
        IF da.results = "url"
        THEN /\ da.dl_calls # <<>>
             /\ exc \notin NotFoundInCollection \cup {"UnboundLocalError"}
        ELSE da.dl_calls = <<>> /\ exc \in NotFoundInCollection

\* C18: on a page with audio whose matched record has no "offers",
\* download_album goes on through its branches and never ends with an error
\* of its own: with a free-download page it starts the direct download,
\* otherwise it searches the collection when is_purchased and else returns
\* the release as not downloaded.
C18_MissingOffersContinues ==
    LET s == da.soup
    IN (/\ top = "client" /\ pc \notin {"idle", "da_start"}
        /\ HasAudioAndRecord(s) /\ ~s.offers.has)
        => /\ exc # "KeyError"
           /\ s.freeDownloadPage => da.dl_calls # <<>>
           /\ (~s.freeDownloadPage /\ ~s.is_purchased)
                 => (pc = "returned" /\ exc = "none" /\ ~da.is_downloaded)

\* C19: when the download started for a qualifying message returns an
\* identity the queue does not hold, the drain leaves the queue as it is and
\* goes on with the remaining messages and polls; it does not end with an
\* error.
C19_UnknownIdentityIgnored ==
    [][ (pc = "fl_pop" /\ queued_emails.tag = "dict" /\ df.id \notin Keys(queued_emails))
            => (/\ queued_emails' = queued_emails
                /\ pc' = "fl_for"
                /\ exc' = "none") ]_vars

\* C20: when the acknowledgement of the email-capture POST is not ok,
\* download_album ends with the ValueError of line 244 and the queue is what
\* it was before the call; the result is neither queued nor downloaded.
C20_RejectedNotQueued ==
    (top = "client" /\ pc = "returned" /\ da.ack = "not_ok") =>
        /\ exc = "ValueError"
        /\ queued_emails = da.queued_before
        /\ ~da.email_queued
        /\ ~da.is_downloaded
\* C20's case: the POST was rejected while another release was pending.
C20_Witness ==
    /\ top = "client" /\ pc = "returned" /\ da.ack = "not_ok"
    /\ da.posts = 1
    /\ exc = "ValueError"
    /\ Keys(queued_emails) # {}
    /\ da.soup.cur \notin Keys(queued_emails)

\* C21: on a page with audio none of whose albumRelease objects has the
\* page's @id, download_album ends with a BCFreeDownloadError, having made no
\* email-capture POST, no collection search and no download, and with the
\* queue as it was before the call.
IsBCFreeDownloadError(e) ==
    e \in NotFoundInCollection
            \cup {DownloadExpired, "BCFreeDownloadError: Page has no data-band."}
C21_NoMatchIsMalformedPage ==
    (/\ top = "client" /\ pc = "returned"
     /\ da.soup.hasAudio /\ ~da.soup.matched)
        => /\ IsBCFreeDownloadError(exc)
           /\ da.posts = 0 /\ da.searches = 0 /\ da.dl_calls = <<>>
           /\ queued_emails = da.queued_before

\* C22: between two polling cycles timeout_count is the number of cycles in a
\* row, up to now, whose listing held no message not yet examined (0 after a
\* cycle that listed a new message), and the resend step is entered only
\* after more than 5 such cycles.
ResendReached == queued_emails.tag = "int"
C22_ResendAfterEmptyCycles ==
    /\ pc = "fl_poll" => fl.timeout_count = fl.empty
    /\ ResendReached => fl.empty > TimeoutCycles

\* C23: in one drain a download is started only for messages from
\* noreply@bandcamp.com whose subject holds "download", and at most once for
\* a mail id; the turn of the for loop that takes a message that does not
\* qualify leaves the queue and the result mapping as they were and starts
\* nothing.
TriedOnceAndQualified ==
    /\ \A i \in 1..Len(fl.tried) : Qualifies(fl.tried[i])
    /\ \A i, j \in 1..Len(fl.tried) :
          fl.tried[i].mail_id = fl.tried[j].mail_id => i = j
C23_OnlyNewQualifyingMessages ==
    /\ []TriedOnceAndQualified
    /\ [][ \A email \in fl.todo :
             (pc = "fl_for" /\ fl'.todo = fl.todo \ {email} /\ ~Qualifies(email))
                => /\ queued_emails' = queued_emails
                   /\ fl'.downloaded = fl.downloaded
                   /\ fl'.tried = fl.tried
                   /\ pc' = "fl_for" /\ df' = df ]_vars
\* C23's case: two messages were examined, one of them did not qualify, one
\* download was started, and an examined message is listed again.
C23_Witness ==
    /\ pc = "fl_for"
    /\ Len(fl.tried) = 1
    /\ Cardinality(fl.checked_ids) = 2
    /\ \E m \in fl.todo : m.mail_id \in fl.checked_ids /\ m.mail_id = fl.tried[1].mail_id
    /\ \E m \in fl.email_list : m.mail_id \in fl.checked_ids /\ ~Qualifies(m)

\* C24: download_album on a page without audio, and on a page with audio, a
\* matching record with a price that is not zero, no free-download page and
\* is_purchased false, returns at once with a result that says neither
\* downloaded nor queued: no POST, no collection search, no download, and the
\* queue as it was before the call.
NoAudio(s) == ~s.hasAudio
Unavailable(s) ==
    /\ HasAudioAndRecord(s) /\ ~s.freeDownloadPage
    /\ s.offers.has /\ s.offers.price # 0 /\ ~s.is_purchased
C24_TerminalOutcomesNoEffect ==
    (/\ top = "client" /\ pc \notin {"idle", "da_start"}
     /\ NoAudio(da.soup) \/ Unavailable(da.soup))
        => /\ pc = "returned" /\ exc = "none"
           /\ ~da.is_downloaded /\ ~da.email_queued
           /\ da.posts = 0 /\ da.searches = 0 /\ da.dl_calls = <<>>
           /\ df = DfInit
           /\ queued_emails = da.queued_before
\* C24's case: with two releases pending, a call on a page without audio that
\* has a free-download page returned.
C24_Witness ==
    /\ top = "client" /\ pc = "returned" /\ exc = "none"
    /\ NoAudio(da.soup) /\ da.soup.freeDownloadPage /\ da.soup.matched
    /\ Cardinality(Keys(queued_emails)) = 2

\* C25: a call made through _get sends the ping exactly when no link check
\* is recorded yet or more than 300 seconds have passed since the session was
\* last called; a ping comes more than 300 seconds after the one before it,
\* and is the first request the call sends.
Pinged(g) == \E i \in 1..Len(g.sent) : g.sent[i] = "ping"
PingDue == gm.last_linkcheck = NoTime \/ gm.now - gm.prev_call > LinkTimeout
C25_PingWhenDue ==
    [][ (pc = "gm" /\ gm'.op = "_get" /\ gm' # gm) =>
            /\ Pinged(gm') <=> PingDue
            /\ Pinged(gm') =>
                  /\ gm.last_ping = NoTime \/ gm.now - gm.last_ping > LinkTimeout
                  /\ gm'.sent[1] = "ping"
      ]_vars

====
